---------------------------- MODULE Spec2Model ----------------------------
(***************************************************************************)
(* Calorie Vision API: the request handlers of main.py (signup, login,     *)
(* analyze, list-meals), the vision adapter with its two fallbacks, and    *)
(* the Meal / User schemas of schemas.py, over a document store holding    *)
(* the collections "user" and "meal".                                      *)
(*                                                                         *)
(* Four specifications share the state:                                    *)
(*   SpecAuth     signup and login, one request at a time;                 *)
(*   SpecAnalyze  analyze, against everything the upstream call can do;    *)
(*   SpecMeals    analyze and list-meals over the stored collection;       *)
(*   SpecRace     signup served by two workers, the existence check and    *)
(*                the insert being separate steps of each worker.          *)
(* The auth handlers touch only the user collection and the meal handlers  *)
(* only the meal collection, so each is explored on its own collection.    *)
(***************************************************************************)
EXTENDS Integers, Sequences, FiniteSets, TLC

VARIABLES
    db,              \* TRUE: database.db is a database handle; FALSE: it is None
    OPENAI_API_KEY,  \* TRUE: the credential is set in the environment
    users,           \* the "user" collection, in insertion order
    meals,           \* the "meal" collection, in insertion order
    resp,            \* the last request served and the response it got
    inflight         \* SpecRace: each worker's signup request in progress

vars == <<db, OPENAI_API_KEY, users, meals, resp, inflight>>

---------------------------------------------------------------------------
(* Bounds of the exploration.                                              *)

MaxUsers == 3
MaxMeals == 3
MaxAnalyses == 2
MaxLimit == 3

---------------------------------------------------------------------------
(* JSON / Python values.  A value carries its type, so that a number, the  *)
(* text of a number and null stay different values.                        *)

Null == [t |-> "null"]
Num(n) == [t |-> "num", n |-> n]
Str(s) == [t |-> "str", s |-> s]
Arr(l) == [t |-> "arr", l |-> l]
\* a key that a JSON object does not have
Absent == [t |-> "absent"]

\* Python truthiness of an Optional[str]: None and "" are falsy.
Truthy(v) == v.t = "str" /\ v.s # ""

Min(a, b) == IF a <= b THEN a ELSE b

\* The first n elements of a sequence (cursor.limit).
Take(s, n) == SubSeq(s, 1, Min(n, Len(s)))

---------------------------------------------------------------------------
(* Storage identities.  An ObjectId is the storage-native identity; its    *)
(* text form is what str() renders and what the API returns.               *)

ObjectId(n) == [oid |-> n]
str(o) == [hex |-> o.oid]

Timestamp(n) == [ts |-> n]
strTime(t) == [iso |-> t.ts]

---------------------------------------------------------------------------
(* Email text is a sequence of characters.                                 *)

IndexesOf(text, c) == {i \in 1..Len(text) : text[i] = c}

LowerChar(c) ==
    CASE c = "A" -> "a"
      [] c = "B" -> "b"
      [] c = "C" -> "c"
      [] c = "O" -> "o"
      [] c = "X" -> "x"
      [] OTHER -> c

Lower(text) == [i \in 1..Len(text) |-> LowerChar(text[i])]

\* EmailStr accepts local@domain with a non-empty local part and a dotted
\* domain whose labels are non-empty.
EmailValid(text) ==
    /\ Cardinality(IndexesOf(text, "@")) = 1
    /\ LET at == CHOOSE i \in IndexesOf(text, "@") : TRUE
           domain == SubSeq(text, at + 1, Len(text))
           dots == IndexesOf(domain, ".")
       IN /\ at > 1
          /\ dots # {}
          /\ \A d \in dots : d > 1 /\ d < Len(domain) /\ (d + 1) \notin dots

\* The value an EmailStr field holds after validation: the normalised
\* address, whose domain part is lower-cased and whose local part is kept.
EmailNormalize(text) ==
    LET at == CHOOSE i \in IndexesOf(text, "@") : TRUE
    IN SubSeq(text, 1, at) \o Lower(SubSeq(text, at + 1, Len(text)))

\* User(name=..., email=..., password_hash=..., is_active=True):
\* ok = FALSE is pydantic's ValidationError.
User(name, email, password_hash, is_active) ==
    IF EmailValid(email)
    THEN [ok |-> TRUE,
          doc |-> [name |-> name, email |-> EmailNormalize(email),
                   password_hash |-> password_hash, is_active |-> is_active]]
    ELSE [ok |-> FALSE, doc |-> [name |-> name]]

---------------------------------------------------------------------------
(* The credential hasher: hash and verify.                                 *)

pwd_hash(password) == [bcrypt |-> password]
pwd_verify(password, digest) == digest = pwd_hash(password)

---------------------------------------------------------------------------
(* The document store gateway (database.py).                               *)

\* create_document(collection, record) -> id: with a database, the record
\* is appended under a fresh identity and a creation time, and the text of
\* the identity is returned; without one the call raises.
create_document(coll, doc) ==
    IF db
    THEN LET oid == ObjectId(Len(coll) + 1)
         IN [ok |-> TRUE,
             coll |-> Append(coll, [_id |-> oid,
                                    created_at |-> Timestamp(Len(coll) + 1),
                                    doc |-> doc]),
             id |-> str(oid)]
    ELSE [ok |-> FALSE, coll |-> coll, id |-> str(ObjectId(0))]

\* A field-equality filter: Null means the empty filter {}.
Matches(d, filter_user_id) ==
    filter_user_id = Null \/ d.doc.user_id = filter_user_id

\* get_documents(collection, filter, limit) -> records: the records that
\* match the filter, in storage order, capped at the limit; without a
\* database the call raises.
get_documents(coll, filter_user_id, limit) ==
    IF db
    THEN [ok |-> TRUE,
          docs |-> Take(SelectSeq(coll, LAMBDA d : Matches(d, filter_user_id)),
                        limit)]
    ELSE [ok |-> FALSE, docs |-> <<>>]

\* db["user"].find({"email": email}) / find_one: the matching user records.
find_users(email) == SelectSeq(users, LAMBDA d : d.doc.email = email)

---------------------------------------------------------------------------
(* Responses.  pre is the size of the handler's collection when the        *)
(* request arrived; looked_up / hashed record which collaborators the      *)
(* handler invoked, adapter what the vision adapter did.                   *)

Trace(looked_up, hashed, adapter) ==
    [looked_up |-> looked_up, hashed |-> hashed, adapter |-> adapter]

\* What the adapter did: whether an exception left it, how many requests
\* it posted upstream, and the result it returned.
Adapter(raised, upstream_calls, result) ==
    [raised |-> raised, upstream_calls |-> upstream_calls, result |-> result]

NoAdapter == Adapter(FALSE, 0, Null)

NoTrace == Trace(FALSE, FALSE, NoAdapter)

Response(op, req, status, body, pre, trace) ==
    [op |-> op, req |-> req, status |-> status, body |-> body,
     pre |-> pre, trace |-> trace]

\* raise HTTPException(status_code, detail)
HTTPException(detail) == [detail |-> detail]

\* an exception that escapes the handler: the framework answers 500
InternalServerError == [detail |-> "Internal Server Error"]

NoResponse == Response("none", Null, 0, Null, 0, NoTrace)

---------------------------------------------------------------------------
(* POST /auth/signup                                                       *)

\* Lines 70-72: the existence check on the request's email; a configured
\* database handle counts as true in `if db`.
signup_existing(payload) == IF db THEN find_users(payload.email) ELSE <<>>

\* the insert made only if the email is still not held
signup_insert_rechecking(payload, looked) ==
    LET trace == Trace(looked, TRUE, NoAdapter)
        user == User(payload.name, payload.email,
                     pwd_hash(payload.password), TRUE)
        made == create_document(users, user.doc)
    IN IF ~user.ok \/ ~made.ok
       THEN [users |-> users,
             resp |-> Response("signup", payload, 500, InternalServerError,
                               Len(users), trace)]
       ELSE IF find_users(user.doc.email) # <<>>
       THEN [users |-> users,
             resp |-> Response("signup", payload, 400,
                               HTTPException("Email already registered"),
                               Len(users), trace)]
       ELSE [users |-> made.coll,
             resp |-> Response("signup", payload, 200, [user_id |-> made.id],
                               Len(users), trace)]

\* Lines 73-76: hash, build the User, persist it.
signup_insert(payload, looked) ==
    LET trace == Trace(looked, TRUE, NoAdapter)
        user == User(payload.name, payload.email,
                     pwd_hash(payload.password), TRUE)
        made == create_document(users, user.doc)
    IN IF ~user.ok
       THEN [users |-> users,
             resp |-> Response("signup", payload, 500, InternalServerError,
                               Len(users), trace)]
       ELSE IF ~made.ok
       THEN [users |-> users,
             resp |-> Response("signup", payload, 500, InternalServerError,
                               Len(users), trace)]
       ELSE [users |-> made.coll,
             resp |-> Response("signup", payload, 200, [user_id |-> made.id],
                               Len(users), trace)]

signup(payload) ==
    IF signup_existing(payload) # <<>>
    THEN [users |-> users,
          resp |-> Response("signup", payload, 400,
                            HTTPException("Email already registered"),
                            Len(users), Trace(db, FALSE, NoAdapter))]
    ELSE signup_insert(payload, db)

---------------------------------------------------------------------------
(* POST /auth/login                                                        *)

\* the handler answering an unknown email with its own error
login_revealing(payload) ==
    LET found == IF db THEN find_users(payload.email) ELSE <<>>
    IN IF ~db
       THEN Response("login", payload, 500,
                     HTTPException("Database not configured"), Len(users), NoTrace)
       ELSE IF found = <<>>
       THEN Response("login", payload, 404,
                     HTTPException("User not found"), Len(users), NoTrace)
       ELSE IF ~pwd_verify(payload.password, found[1].doc.password_hash)
       THEN Response("login", payload, 401,
                     HTTPException("Invalid credentials"), Len(users), NoTrace)
       ELSE Response("login", payload, 200,
                     [user_id |-> str(found[1]._id),
                      name |-> found[1].doc.name,
                      email |-> found[1].doc.email], Len(users), NoTrace)

login(payload) ==
    LET found == IF db THEN find_users(payload.email) ELSE <<>>
    IN IF ~db
       THEN Response("login", payload, 500,
                     HTTPException("Database not configured"), Len(users), NoTrace)
       ELSE IF found = <<>>
       THEN Response("login", payload, 401,
                     HTTPException("Invalid credentials"), Len(users), NoTrace)
       ELSE IF ~pwd_verify(payload.password, found[1].doc.password_hash)
       THEN Response("login", payload, 401,
                     HTTPException("Invalid credentials"), Len(users), NoTrace)
       ELSE Response("login", payload, 200,
                     [user_id |-> str(found[1]._id),
                      name |-> found[1].doc.name,
                      email |-> found[1].doc.email], Len(users), NoTrace)

---------------------------------------------------------------------------
(* The Meal schema (schemas.py).  A validator returns ok = FALSE for       *)
(* pydantic's ValidationError, and otherwise the value the model holds.    *)
(* A float field holds the number an integer or a numeric text denotes;    *)
(* 520 and 520.0 are the same number here.                                 *)

Invalid == [ok |-> FALSE, v |-> Null]
Valid(v) == [ok |-> TRUE, v |-> v]

IsNumericText(s) == s \in {"300", "-5"}

ParseFloat(s) ==
    CASE s = "300" -> 300
      [] s = "-5" -> 0 - 5
      [] OTHER -> 0

\* the same field declared without ge=0
float_unbounded(v) ==
    CASE v.t \in {"null", "absent"} -> Valid(Null)
      [] v.t = "num" -> Valid(Num(v.n))
      [] v.t = "str" ->
            IF IsNumericText(v.s) THEN Valid(Num(ParseFloat(v.s))) ELSE Invalid
      [] OTHER -> Invalid

\* Optional[float] = Field(None, ge=0)
float_ge0(v) ==
    CASE v.t \in {"null", "absent"} -> Valid(Null)
      [] v.t = "num" -> IF v.n >= 0 THEN Valid(Num(v.n)) ELSE Invalid
      [] v.t = "str" ->
            IF IsNumericText(v.s) /\ ParseFloat(v.s) >= 0
            THEN Valid(Num(ParseFloat(v.s)))
            ELSE Invalid
      [] OTHER -> Invalid

\* Optional[str]
optional_str(v) == IF v.t \in {"null", "str"} THEN Valid(v) ELSE Invalid

\* Optional[List[str]]
optional_list_str(v) == IF v.t \in {"null", "arr"} THEN Valid(v) ELSE Invalid

\* A JSON object given for macros, with the keys whose value is not Absent
\* among the three schema keys and one other key.
MacroObject(carbs_g, protein_g, fat_g, fiber_g) ==
    LET given == [carbs_g |-> carbs_g, protein_g |-> protein_g,
                  fat_g |-> fat_g, fiber_g |-> fiber_g]
        keys == {k \in DOMAIN given : given[k] # Absent}
    IN [k \in keys \cup {"t"} |-> IF k = "t" THEN "obj" ELSE given[k]]

\* The value of a key of an object, Absent when the object has no such key.
Field(obj, k) == IF k \in DOMAIN obj THEN obj[k] ELSE Absent

\* What a Macro model holds and dumps: exactly the three schema keys.
MacroValue(carbs_g, protein_g, fat_g) ==
    [t |-> "obj", carbs_g |-> carbs_g, protein_g |-> protein_g, fat_g |-> fat_g]

\* macros: Optional[Macro]
Macro(v) ==
    IF v.t = "null" THEN Valid(Null)
    ELSE IF v.t # "obj" THEN Invalid
    ELSE LET c == float_ge0(Field(v, "carbs_g"))
             p == float_ge0(Field(v, "protein_g"))
             f == float_ge0(Field(v, "fat_g"))
         IN IF c.ok /\ p.ok /\ f.ok
            THEN Valid(MacroValue(c.v, p.v, f.v))
            ELSE Invalid

\* Meal(user_id=..., image_name=..., dish_name=..., calories=..., macros=...,
\*      ingredients=..., raw_response=...); notes and source take defaults.
Meal(user_id, image_name, dish_name, calories, macros, ingredients, raw_response) ==
    LET u == optional_str(user_id)
        d == optional_str(dish_name)
        c == float_ge0(calories)
        m == Macro(macros)
        i == optional_list_str(ingredients)
    IN IF u.ok /\ d.ok /\ c.ok /\ m.ok /\ i.ok
       THEN [ok |-> TRUE,
             doc |-> [user_id |-> u.v, image_name |-> image_name,
                      dish_name |-> d.v, calories |-> c.v, macros |-> m.v,
                      ingredients |-> i.v, notes |-> Null,
                      source |-> Str("openai-vision"),
                      raw_response |-> raw_response]]
       ELSE [ok |-> FALSE, doc |-> [user_id |-> user_id]]

---------------------------------------------------------------------------
(* The vision analysis adapter.                                            *)

Analysis(dish_name, calories, macros, ingredients, raw) ==
    [dish_name |-> dish_name, calories |-> calories, macros |-> macros,
     ingredients |-> ingredients, raw |-> raw]

\* Lines 100-106: the stub returned when no credential is configured.
StubResult ==
    Analysis(Str("Mixed meal"), Num(520),
             MacroValue(Num(55), Num(28), Num(22)),
             Arr(<<"rice", "chicken", "vegetables", "sauce">>),
             [provider |-> "stub"])

\* Lines 147-153: the degraded result returned on any failure.
DegradedResult(error) ==
    Analysis(Str("Meal"), Num(450),
             MacroValue(Num(50), Num(20), Num(18)),
             Null,
             [error |-> error])

\* dict.get(key): None for a key the object does not have.
get(v) == IF v = Absent THEN Null ELSE v

StatusText(status) ==
    CASE status = 200 -> "200"
      [] status = 300 -> "300"
      [] status = 500 -> "500"
      [] OTHER -> "?"

Raised(error) == [exc |-> TRUE, error |-> error, result |-> Null]
Returned(result) == [exc |-> FALSE, error |-> "", result |-> result]

\* Lines 134-144: the body is decoded as JSON, the first choice's message
\* content (default "{}") is decoded as JSON and its four fields are read
\* with .get; any exception of the decoding is raised.
decode_response(upstream) ==
    IF upstream.body.kind = "not_json"
    THEN Raised("JSONDecodeError in response body")
    ELSE IF upstream.body.kind = "content_not_json"
    THEN Raised("JSONDecodeError in message content")
    ELSE LET parsed == IF upstream.body.kind = "no_choices"
                       THEN [dish_name |-> Absent, calories |-> Absent,
                             macros |-> Absent, ingredients |-> Absent]
                       ELSE upstream.body.parsed
         IN Returned(Analysis(get(parsed.dish_name), get(parsed.calories),
                              get(parsed.macros), get(parsed.ingredients),
                              [data |-> upstream.body]))

\* the try block without the status test of line 132
vision_call_unchecked(image_bytes, upstream) ==
    IF upstream.kind = "timeout"
    THEN Raised("Read timed out")
    ELSE decode_response(upstream)

\* Lines 109-144, the body of the try block: the request is posted with a
\* timeout, a status >= 400 raises, and the response is decoded.
vision_call(image_bytes, upstream) ==
    IF upstream.kind = "timeout"
    THEN Raised("Read timed out")
    ELSE IF upstream.status >= 400
    THEN Raised("Vision API error: " \o StatusText(upstream.status))
    ELSE decode_response(upstream)

\* the test of line 99 with its negation dropped
no_credential_inverted == OPENAI_API_KEY

\* Line 99: if not OPENAI_API_KEY
no_credential == ~OPENAI_API_KEY

\* analyze_image_with_fallback(image_bytes): the stub without a credential;
\* otherwise the try block, whose every exception the except clause turns
\* into the degraded result.
analyze_image_with_fallback(image_bytes, upstream) ==
    IF no_credential
    THEN Adapter(FALSE, 0, StubResult)
    ELSE LET r == vision_call(image_bytes, upstream)
         IN IF r.exc
            THEN Adapter(FALSE, 1, DegradedResult(r.error))
            ELSE Adapter(FALSE, 1, r.result)

---------------------------------------------------------------------------
(* POST /analyze                                                           *)

analyze_image(file, user_id, upstream) ==
    LET req == [file |-> file, user_id |-> user_id, upstream |-> upstream]
        adapter == analyze_image_with_fallback(file.bytes, upstream)
        analysis == adapter.result
        trace == Trace(FALSE, FALSE, adapter)
        meal_doc == Meal(user_id, Str(file.filename), analysis.dish_name,
                         analysis.calories, analysis.macros,
                         analysis.ingredients, analysis.raw)
        made == create_document(meals, meal_doc.doc)
    IN IF adapter.raised \/ ~meal_doc.ok \/ ~made.ok
       THEN [meals |-> meals,
             resp |-> Response("analyze", req, 500, InternalServerError,
                               Len(meals), trace)]
       ELSE [meals |-> made.coll,
             resp |-> Response("analyze", req, 200,
                               [meal_id |-> made.id,
                                dish_name |-> analysis.dish_name,
                                calories |-> analysis.calories,
                                macros |-> analysis.macros,
                                ingredients |-> analysis.ingredients,
                                raw |-> analysis.raw],
                               Len(meals), trace)]

---------------------------------------------------------------------------
(* GET /meals                                                              *)

\* the filter left empty whatever user_id is
filter_dict_ignored(user_id) == Null

\* Line 174: {"user_id": user_id} if user_id else {}
filter_dict(user_id) == IF Truthy(user_id) THEN user_id ELSE Null

\* the record returned with its storage-native identity
serialize_native_id(m) ==
    [_id |-> m._id, created_at |-> strTime(m.created_at), doc |-> m.doc]

\* Lines 177-180: the identity and the timestamp rendered as text.
serialize(m) ==
    [_id |-> str(m._id), created_at |-> strTime(m.created_at), doc |-> m.doc]

list_meals(user_id, limit) ==
    LET req == [user_id |-> user_id, limit |-> limit]
        got == get_documents(meals, filter_dict(user_id), limit)
    IN IF ~got.ok
       THEN Response("list_meals", req, 500, InternalServerError,
                     Len(meals), NoTrace)
       ELSE Response("list_meals", req, 200,
                     [i \in 1..Len(got.docs) |-> serialize(got.docs[i])],
                     Len(meals), NoTrace)

---------------------------------------------------------------------------
(* Request inputs.                                                         *)

EmailA == <<"a", "@", "x", ".", "c", "o">>
EmailAUpper == <<"a", "@", "X", ".", "c", "o">>
EmailB == <<"b", "@", "x", ".", "c", "o">>
EmailBad == <<"a", "x", ".", "c", "o">>

EmailInputs == {EmailA, EmailAUpper, EmailB, EmailBad}
PasswordInputs == {"p", "q"}

SignupRequests ==
    {[name |-> "A", email |-> e, password |-> p] :
        e \in EmailInputs, p \in PasswordInputs}

LoginRequests ==
    {[email |-> e, password |-> p] : e \in EmailInputs, p \in PasswordInputs}

\* Upload inputs: an empty upload and a JPEG header.
ImageInputs == {<<>>, <<255, 216>>}
FileInputs == {[filename |-> "meal.jpg", bytes |-> b] : b \in ImageInputs}

\* user_id as the form field of /analyze delivers it: absent or a text.
AnalyzeUserIds == {Null, Str("u1")}

\* user_id as the query string of /meals delivers it: absent, empty, a text.
ListUserIds == {Null, Str(""), Str("u1"), Str("u2")}

Limits == 0..MaxLimit

\* What the model's message content decodes to, when it is a JSON object.
\* the four fields as asked for
ParsedConforming ==
    [dish_name |-> Str("Pasta"), calories |-> Num(300),
     macros |-> MacroObject(Num(40), Num(10), Num(8), Absent),
     ingredients |-> Arr(<<"pasta">>)]

\* calories given as text, macros with one schema key and one other key
ParsedLoose ==
    [dish_name |-> Absent, calories |-> Str("300"),
     macros |-> MacroObject(Num(10), Absent, Absent, Num(3)),
     ingredients |-> Null]

ParsedNegativeCalories ==
    [dish_name |-> Str("Pasta"), calories |-> Num(0 - 5),
     macros |-> Absent, ingredients |-> Absent]

ParsedNegativeMacro ==
    [dish_name |-> Absent, calories |-> Num(300),
     macros |-> MacroObject(Num(10), Num(0 - 1), Num(0), Absent),
     ingredients |-> Absent]

ParsedMacrosNotObject ==
    [dish_name |-> Absent, calories |-> Num(300),
     macros |-> Str("n/a"), ingredients |-> Absent]

ParsedInputs ==
    {ParsedConforming, ParsedLoose, ParsedNegativeCalories,
     ParsedNegativeMacro, ParsedMacrosNotObject}

ContentObject(p) == [kind |-> "content_object", parsed |-> p]

ResponseBodies ==
    {[kind |-> k] : k \in {"not_json", "no_choices", "content_not_json"}}
    \cup {ContentObject(p) : p \in ParsedInputs}

StatusInputs == {200, 300, 500}

HttpResponse(status, body) ==
    [kind |-> "response", status |-> status, body |-> body]

Timeout == [kind |-> "timeout"]

\* Everything the upstream call can do (SpecAnalyze).
UpstreamOutcomes ==
    {Timeout} \cup {HttpResponse(st, b) : st \in StatusInputs, b \in ResponseBodies}

\* The outcomes the stored collection is explored with (SpecMeals).
StoredOutcomes ==
    {Timeout}
    \cup {HttpResponse(200, ContentObject(p)) :
            p \in {ParsedConforming, ParsedLoose, ParsedNegativeCalories,
                   ParsedNegativeMacro}}

Workers == {1, 2}

Idle == [state |-> "idle"]

---------------------------------------------------------------------------
(* Actions of SpecAuth.                                                    *)

Init ==
    /\ db \in BOOLEAN
    /\ OPENAI_API_KEY \in BOOLEAN
    /\ users = <<>>
    /\ meals = <<>>
    /\ resp = NoResponse
    /\ inflight = [w \in Workers |-> Idle]

Signup ==
    \E payload \in SignupRequests :
        LET r == signup(payload)
        IN /\ Len(r.users) <= MaxUsers
           /\ users' = r.users
           /\ resp' = r.resp
           /\ UNCHANGED <<db, OPENAI_API_KEY, meals, inflight>>

Login ==
    \E payload \in LoginRequests :
        /\ resp' = login(payload)
        /\ UNCHANGED <<db, OPENAI_API_KEY, users, meals, inflight>>

NextAuth == Signup \/ Login

SpecAuth == Init /\ [][NextAuth]_vars


---------------------------------------------------------------------------
(* Actions of SpecAnalyze and SpecMeals.                                   *)

AnalyzeWith(user_ids, outcomes, bound) ==
    \E file \in FileInputs, user_id \in user_ids, upstream \in outcomes :
        LET r == analyze_image(file, user_id, upstream)
        IN /\ Len(r.meals) <= bound
           /\ meals' = r.meals
           /\ resp' = r.resp
           /\ UNCHANGED <<db, OPENAI_API_KEY, users, inflight>>

\* anonymous uploads against every upstream outcome
AnalyzeAny == AnalyzeWith({Null}, UpstreamOutcomes, MaxAnalyses)

Analyze == AnalyzeWith(AnalyzeUserIds, StoredOutcomes, MaxMeals)

ListMeals ==
    \E user_id \in ListUserIds, limit \in Limits :
        /\ resp' = list_meals(user_id, limit)
        /\ UNCHANGED <<db, OPENAI_API_KEY, users, meals, inflight>>

NextAnalyze == AnalyzeAny

SpecAnalyze == Init /\ [][NextAnalyze]_vars

NextMeals == Analyze \/ ListMeals

SpecMeals == Init /\ [][NextMeals]_vars

---------------------------------------------------------------------------
(* Actions of SpecRace: two workers serve signups against the same store.  *)
(* A worker's request is checked (lines 70-72) in one step and inserted    *)
(* (lines 73-76) in a later one; the other worker may step in between.     *)

Checked(payload) == [state |-> "checked", payload |-> payload]
Done(payload, response) ==
    [state |-> "done", payload |-> payload, resp |-> response]

CheckedWorkers == {w \in Workers : inflight[w].state = "checked"}

SignupCheck(w) ==
    /\ inflight[w].state \in {"idle", "done"}
    /\ Len(users) + Cardinality(CheckedWorkers) < MaxUsers
    /\ \E payload \in SignupRequests :
          inflight' =
             [inflight EXCEPT
                ![w] = IF signup_existing(payload) # <<>>
                       THEN Done(payload, signup(payload).resp)
                       ELSE Checked(payload)]
    /\ UNCHANGED <<db, OPENAI_API_KEY, users, meals, resp>>

SignupInsert(w) ==
    /\ inflight[w].state = "checked"
    /\ LET r == signup_insert(inflight[w].payload, db)
       IN /\ users' = r.users
          /\ inflight' = [inflight EXCEPT ![w] = Done(inflight[w].payload, r.resp)]
    /\ UNCHANGED <<db, OPENAI_API_KEY, meals, resp>>

NextRace == \E w \in Workers : SignupCheck(w) \/ SignupInsert(w)

SpecRace == Init /\ [][NextRace]_vars

---------------------------------------------------------------------------
(* Claims on signup and login (SpecAuth).                                  *)

\* The stored user records that were present when the last request arrived
\* and carry the given email.
HeldBefore(email) ==
    {i \in 1..Min(resp.pre, Len(users)) : users[i].doc.email = email}

\* C1: under sequential execution a signup whose email is already held by a
\* user record is answered 400 "Email already registered" and inserts
\* nothing, and so no two user records ever share an email.
C1_SequentialSignupKeepsEmailsUnique ==
    /\ (resp.op = "signup" /\ HeldBefore(resp.req.email) # {})
          => /\ resp.status = 400
             /\ resp.body = HTTPException("Email already registered")
             /\ Len(users) = resp.pre
    /\ \A i, j \in 1..Len(users) :
          i # j => users[i].doc.email # users[j].doc.email

\* C2: with storage configured, a login whose email matches no user and a
\* login whose password does not verify against the matched user's hash
\* both get status 401 with detail "Invalid credentials".
C2_LoginFailuresIndistinguishable ==
    (resp.op = "login" /\ db)
        => LET found == find_users(resp.req.email)
               no_user == found = <<>>
               bad_password ==
                   /\ found # <<>>
                   /\ ~pwd_verify(resp.req.password, found[1].doc.password_hash)
           IN (no_user \/ bad_password)
                 => /\ resp.status = 401
                    /\ resp.body = HTTPException("Invalid credentials")

\* C2 witness: a login for a registered email with a wrong password has
\* been answered.
C2_WrongPasswordAnswered ==
    /\ resp.op = "login"
    /\ db
    /\ find_users(resp.req.email) # <<>>
    /\ ~pwd_verify(resp.req.password,
                   find_users(resp.req.email)[1].doc.password_hash)
    /\ resp.status = 401

\* C9: a signup (storage configured) whose email is not a syntactically
\* valid address is rejected as a client validation error (422) before the
\* handler runs:
\* no existence lookup, no password hashing, no user record persisted.
C9_InvalidEmailRejectedBeforeHandler ==
    (resp.op = "signup" /\ db /\ ~EmailValid(resp.req.email))
        => /\ resp.status = 422
           /\ ~resp.trace.looked_up
           /\ ~resp.trace.hashed
           /\ Len(users) = resp.pre

---------------------------------------------------------------------------
(* Claim on concurrent signups (SpecRace).                                 *)

---------------------------------------------------------------------------
(* Claims on the vision adapter and /analyze (SpecAnalyze).                *)

\* The analysis fields of a 200 response of /analyze.
BodyAnalysis(body) ==
    Analysis(body.dish_name, body.calories, body.macros, body.ingredients,
             body.raw)

C3_StubValues ==
    Analysis(Str("Mixed meal"), Num(520),
             [t |-> "obj", carbs_g |-> Num(55), protein_g |-> Num(28),
              fat_g |-> Num(22)],
             Arr(<<"rice", "chicken", "vegetables", "sauce">>),
             [provider |-> "stub"])

\* C3 as stated: with no credential configured, for every image the adapter
\* returns exactly the stub without any upstream call, and /analyze returns
\* those same values.
C3_StubAlwaysReturned ==
    (resp.op = "analyze" /\ ~OPENAI_API_KEY)
        => /\ ~resp.trace.adapter.raised
           /\ resp.trace.adapter.upstream_calls = 0
           /\ resp.trace.adapter.result = C3_StubValues
           /\ resp.status = 200
           /\ BodyAnalysis(resp.body) = C3_StubValues

\* C3 amended: with no credential configured, for every image the adapter
\* returns exactly the stub without any upstream call, and, when storage is
\* available, /analyze returns those same values.
C3_StubReturnedWithStorage ==
    (resp.op = "analyze" /\ ~OPENAI_API_KEY)
        => /\ ~resp.trace.adapter.raised
           /\ resp.trace.adapter.upstream_calls = 0
           /\ resp.trace.adapter.result = C3_StubValues
           /\ db => /\ resp.status = 200
                    /\ BodyAnalysis(resp.body) = C3_StubValues

\* C3 witness: without a credential, /analyze of a non-empty upload has
\* answered 200.
C3_StubServed ==
    /\ resp.op = "analyze"
    /\ ~OPENAI_API_KEY
    /\ resp.req.file.bytes # <<>>
    /\ resp.status = 200

\* The adapter returned the degraded result, raw carrying an error text.
IsDegraded(adapter) ==
    /\ ~adapter.raised
    /\ adapter.result.dish_name = Str("Meal")
    /\ adapter.result.calories = Num(450)
    /\ adapter.result.macros =
          [t |-> "obj", carbs_g |-> Num(50), protein_g |-> Num(20),
           fat_g |-> Num(18)]
    /\ adapter.result.ingredients = Null
    /\ DOMAIN adapter.result.raw = {"error"}
    /\ adapter.result.raw.error # ""

\* The upstream call timed out, or its response cannot be decoded.
TimedOutOrUndecodable(upstream) ==
    \/ upstream.kind = "timeout"
    \/ /\ upstream.kind = "response"
       /\ upstream.body.kind \in {"not_json", "content_not_json"}

\* C4 as stated: with a credential, a non-success (non-2xx) status, a
\* timeout or an exception while parsing makes the adapter return exactly
\* the degraded result, and it never raises.
C4_DegradedOnNonSuccess ==
    (resp.op = "analyze" /\ OPENAI_API_KEY)
        => LET upstream == resp.req.upstream
           IN (\/ TimedOutOrUndecodable(upstream)
               \/ /\ upstream.kind = "response"
                  /\ ~(upstream.status >= 200 /\ upstream.status < 300))
                 => IsDegraded(resp.trace.adapter)

\* C4 amended: with a credential, a status of 400 or more, a timeout or an
\* exception while parsing makes the adapter return exactly the degraded
\* result, and it never raises.
C4_DegradedOnErrorStatus ==
    (resp.op = "analyze" /\ OPENAI_API_KEY)
        => /\ ~resp.trace.adapter.raised
           /\ LET upstream == resp.req.upstream
              IN (\/ TimedOutOrUndecodable(upstream)
                  \/ /\ upstream.kind = "response"
                     /\ upstream.status >= 400)
                    => IsDegraded(resp.trace.adapter)

\* C4 witness: a 500 response whose body would decode has been answered
\* with the degraded result.
C4_ErrorStatusDegraded ==
    /\ resp.op = "analyze"
    /\ OPENAI_API_KEY
    /\ resp.req.upstream.kind = "response"
    /\ resp.req.upstream.status = 500
    /\ resp.req.upstream.body = ContentObject(ParsedConforming)
    /\ IsDegraded(resp.trace.adapter)

\* C5: with storage available every /analyze request gets a 200 response
\* carrying meal_id, whatever the upstream model does or returns.
C5_AnalyzeAlwaysSucceeds ==
    (resp.op = "analyze" /\ db)
        => /\ resp.status = 200
           /\ "meal_id" \in DOMAIN resp.body

---------------------------------------------------------------------------
(* Claims on the stored meals and /meals (SpecMeals).                      *)

\* The records /meals returns now for a filter, with a limit that covers
\* the stored meals.
Listed(user_id) == list_meals(user_id, Len(meals)).body

\* The record of Listed(user_id) with the given text identity, if any.
ListedWithId(user_id, id) ==
    {i \in 1..Len(Listed(user_id)) : Listed(user_id)[i]._id = id}

\* C6 as stated: after /analyze succeeded with meal_id m, /meals (unfiltered
\* or filtered by the same user_id, limit large enough) returns a record
\* with _id = m whose dish_name, calories, macros and ingredients equal the
\* values /analyze returned; the call added exactly one meal record.
C6_RoundTripExact ==
    (resp.op = "analyze" /\ resp.status = 200)
        => /\ Len(meals) = resp.pre + 1
           /\ \A user_id \in {Null, resp.req.user_id} :
                 \E i \in ListedWithId(user_id, resp.body.meal_id) :
                    LET d == Listed(user_id)[i].doc
                    IN /\ d.dish_name = resp.body.dish_name
                       /\ d.calories = resp.body.calories
                       /\ d.macros = resp.body.macros
                       /\ d.ingredients = resp.body.ingredients

\* C6 amended: ... returns a record with _id = m whose dish_name, calories,
\* macros and ingredients are the values /analyze returned as the Meal
\* schema holds them (numeric text as its number, macros reduced to
\* carbs_g / protein_g / fat_g with missing keys null), and equal the
\* returned values themselves for the stub and the degraded result; the
\* call added exactly one meal record.
C6_RoundTripNormalised ==
    (resp.op = "analyze" /\ resp.status = 200)
        => /\ Len(meals) = resp.pre + 1
           /\ \A user_id \in {Null, resp.req.user_id} :
                 \E i \in ListedWithId(user_id, resp.body.meal_id) :
                    LET d == Listed(user_id)[i].doc
                        exact == /\ d.dish_name = resp.body.dish_name
                                 /\ d.calories = resp.body.calories
                                 /\ d.macros = resp.body.macros
                                 /\ d.ingredients = resp.body.ingredients
                    IN /\ d.dish_name = resp.body.dish_name
                       /\ d.ingredients = resp.body.ingredients
                       /\ resp.body.calories.t = "str"
                             => d.calories = Num(ParseFloat(resp.body.calories.s))
                       /\ resp.body.calories.t # "str"
                             => d.calories = resp.body.calories
                       /\ resp.body.macros = Null => d.macros = Null
                       /\ resp.body.macros # Null
                             => /\ DOMAIN d.macros
                                      = {"t", "carbs_g", "protein_g", "fat_g"}
                                /\ \A k \in {"carbs_g", "protein_g", "fat_g"} :
                                      IF k \in DOMAIN resp.body.macros
                                      THEN d.macros[k] = resp.body.macros[k]
                                      ELSE d.macros[k] = Null
                       /\ DOMAIN resp.body.raw # {"data"} => exact

\* C6 witness: /analyze has stored a result whose calories came as text and
\* whose macros lacked schema keys.
C6_LooseResultStored ==
    /\ resp.op = "analyze"
    /\ resp.status = 200
    /\ resp.body.calories.t = "str"
    /\ resp.body.macros # Null
    /\ ListedWithId(Null, resp.body.meal_id) # {}

NonNegative(v) == v = Null \/ (v.t = "num" /\ v.n >= 0)

\* A value that denotes a negative number.
Negative(v) ==
    \/ v.t = "num" /\ v.n < 0
    \/ v.t = "str" /\ IsNumericText(v.s) /\ ParseFloat(v.s) < 0

ViolatesNonNegativity(analysis) ==
    \/ Negative(analysis.calories)
    \/ /\ analysis.macros.t = "obj"
       /\ \E k \in DOMAIN analysis.macros \cap {"carbs_g", "protein_g", "fat_g"} :
             Negative(analysis.macros[k])

\* C8: every persisted meal has a source tag, calories >= 0 when present,
\* each of carbs_g, protein_g, fat_g >= 0 when present, and user_id absent
\* or a text; an analysis result violating non-negativity is not persisted.
C8_PersistedMealsValid ==
    /\ \A i \in 1..Len(meals) :
          LET d == meals[i].doc
          IN /\ d.source.t = "str" /\ d.source.s # ""
             /\ NonNegative(d.calories)
             /\ d.macros # Null
                   => /\ NonNegative(d.macros.carbs_g)
                      /\ NonNegative(d.macros.protein_g)
                      /\ NonNegative(d.macros.fat_g)
             /\ d.user_id.t \in {"null", "str"}
    /\ (resp.op = "analyze" /\ ViolatesNonNegativity(resp.trace.adapter.result))
          => /\ resp.status # 200
             /\ Len(meals) = resp.pre

\* C8 witness: an analysis with a negative number was refused while a meal
\* is already stored.
C8_NegativeRefused ==
    /\ resp.op = "analyze"
    /\ ViolatesNonNegativity(resp.trace.adapter.result)
    /\ resp.status = 500
    /\ Len(meals) >= 1

=============================================================================
